---- MODULE Spec2Model ----
(***************************************************************************)
(* The bounded format-template rendering engine of akuma's userspace libc  *)
(* stubs: the four vsnprintf implementations (doom, quickjs, sqlite, tcc). *)
(* One call is a small state machine: Call enters the function, every loop *)
(* iteration of the format loop is one step, the code after the loop       *)
(* writes the terminator and returns.                                      *)
(*                                                                         *)
(* Characters are one-character strings, NUL is the C terminator, and a    *)
(* destination cell holding Untouched has not been written by the call.    *)
(* Conversions f F e E g G and n of the quickjs variant take a double or   *)
(* an int pointer; templates of this model never contain them, and the     *)
(* variant parks in pc = "float" if it meets one.                          *)
(*                                                                         *)
(* The 64-bit quantities of the code whose overflow is reachable keep a    *)
(* width: long long is LongLongBits wide and addresses and size_t are      *)
(* AddrBits wide, with the same wrap-around as the 64 bits of the code.    *)
(*                                                                         *)
(* Around the engine the module holds its callers in the same libraries:   *)
(* the stream wrappers that render into a local array and forward it, the  *)
(* unbounded wrappers sprintf / vsprintf, the FILE pool of the doom stubs  *)
(* and the WAD reader that sits on it.                                     *)
(***************************************************************************)
EXTENDS Integers, Sequences, FiniteSets, TLC

VARIABLES variant, format, tail, ap, size, str, fp, ai, out, pc, ret,
          overread, scratchTop, wild, d, pool, memo, peer,
          sent, file_pool, fds, handles, fres, closes, wad, rd

\* what the callers of the engine keep: the stream a wrapper forwarded to,
\* the FILE pool with the descriptors of the kernel, the WAD and its reads
io == <<sent, file_pool, fds, handles, fres, closes, wad, rd>>

\* the engine, its pool of inputs and the two contexts that call it
engine == <<variant, format, tail, ap, size, str, fp, ai, out, pc, ret,
            overread, scratchTop, wild, d, pool, memo, peer>>

vars == <<engine, io>>

(***************************************************************************)
(* Characters                                                              *)
(***************************************************************************)
NUL == "NUL"
Untouched == "?"

DigitChars == {"0", "1", "2", "3", "4", "5", "6", "7", "8", "9"}

isdigit(c) == c \in DigitChars

DigitVal(c) ==
  CASE c = "0" -> 0 [] c = "1" -> 1 [] c = "2" -> 2 [] c = "3" -> 3
    [] c = "4" -> 4 [] c = "5" -> 5 [] c = "6" -> 6 [] c = "7" -> 7
    [] c = "8" -> 8 [] c = "9" -> 9 [] OTHER -> 0

LowerHex == <<"0", "1", "2", "3", "4", "5", "6", "7", "8", "9",
              "a", "b", "c", "d", "e", "f">>

UpperHex == <<"0", "1", "2", "3", "4", "5", "6", "7", "8", "9",
              "A", "B", "C", "D", "E", "F">>

NullText == <<"(", "n", "u", "l", "l", ")">>

Min(a, b) == IF a < b THEN a ELSE b

Max(a, b) == IF a > b THEN a ELSE b

Rep(c, n) == [k \in 1..Max(n, 0) |-> c]

Rev(q) == [k \in 1..Len(q) |-> q[Len(q) + 1 - k]]

Take(q, n) == SubSeq(q, 1, Min(Len(q), Max(n, 0)))

(***************************************************************************)
(* Arguments (va_list): tagged values, consumed by a cursor                *)
(***************************************************************************)
IntArg(n) == [t |-> "int", n |-> n, s |-> <<>>]

StrArg(x) == [t |-> "str", n |-> 0, s |-> x]

NullArg == [t |-> "null", n |-> 0, s |-> <<>>]

PtrArg(n) == [t |-> "ptr", n |-> n, s |-> <<>>]

ChrArg(c) == [t |-> "chr", n |-> 0, s |-> <<c>>]

\* va_arg(ap, T) is defined only when the next argument exists and has type T
HasArg(s, i, types) == i < Len(s.ap) /\ s.ap[i + 1].t \in types

\* va_arg(ap, unsigned ...) of an argument passed as a signed integer is
\* defined only for a value both types can hold
HasUnsigned(s, i) == HasArg(s, i, {"int"}) /\ s.ap[i + 1].n >= 0

ArgAt(s, i) == IF i < Len(s.ap) THEN s.ap[i + 1] ELSE IntArg(0)

(***************************************************************************)
(* Template memory: format[1..Len], its terminator, then whatever follows  *)
(* the template in memory (tail), then zeros.                              *)
(***************************************************************************)
Deref(s, i) ==
  IF i <= Len(s.format) THEN s.format[i]
  ELSE IF i = Len(s.format) + 1 THEN NUL
  ELSE IF i - Len(s.format) - 1 <= Len(s.tail) THEN s.tail[i - Len(s.format) - 1]
  ELSE NUL

RECURSIVE SkipSet(_, _, _)
\* while the character at format is in set: format++
SkipSet(s, i, set) == IF Deref(s, i) \in set THEN SkipSet(s, i + 1, set) ELSE i

RECURSIVE ParseNum(_, _, _)
\* while isdigit: n = n * 10 + digit; format++
ParseNum(s, i, n) ==
  IF isdigit(Deref(s, i)) THEN ParseNum(s, i + 1, n * 10 + DigitVal(Deref(s, i)))
  ELSE [val |-> n, next |-> i]

SawFlag(s, from, to, c) == \E k \in from..(to - 1) : Deref(s, k) = c

(***************************************************************************)
(* Destination writes                                                      *)
(***************************************************************************)
\* doom: for each k, if (pos + k < limit) str[pos + k] = text[k]; position
\* advances by the whole text
PutCounted(mem, pos, limit, text) ==
  [i \in DOMAIN mem |->
     IF i >= pos /\ i - pos < Len(text) /\ i < limit THEN text[i - pos + 1]
     ELSE mem[i]]

\* quickjs, sqlite, tcc: while (... && out < end) *out++ = text[k]
Fit(o, end, text) == Min(Len(text), Max(end - o, 0))

PutClipped(mem, o, end, text) ==
  [i \in DOMAIN mem |->
     IF i >= o /\ i - o < Fit(o, end, text) THEN text[i - o + 1] ELSE mem[i]]

Poke(mem, i, c) == [k \in DOMAIN mem |-> IF k = i THEN c ELSE mem[k]]

(***************************************************************************)
(* The locals of the directive handled last                                *)
(***************************************************************************)
NoDir == [kind |-> "none", conv |-> "", width |-> 0, precision |-> -1,
          zero_pad |-> FALSE, left |-> FALSE, neg |-> FALSE,
          content |-> <<>>, start |-> 0, ai0 |-> 0, fp0 |-> 0]

Dir(kind, conv, width, precision, zero_pad, left, neg, content, s) ==
  [kind |-> kind, conv |-> conv, width |-> width, precision |-> precision,
   zero_pad |-> zero_pad, left |-> left, neg |-> neg, content |-> content,
   start |-> s.out, ai0 |-> s.ai, fp0 |-> s.fp]

(***************************************************************************)
(* Numeric renderer: the scratch array, least significant digit first      *)
(***************************************************************************)
RECURSIVE DigitsRev(_, _, _)
\* do { buf[i++] = table[val % base]; val /= base; } while (val);
DigitsRev(uval, base, table) ==
  IF uval < base THEN <<table[uval + 1]>>
  ELSE <<table[(uval % base) + 1]>> \o DigitsRev(uval \div base, base, table)


(***************************************************************************)
(* The state of one call as a record, so that a step is an operator        *)
(***************************************************************************)
Cur == [variant |-> variant, format |-> format, tail |-> tail, ap |-> ap,
        size |-> size, str |-> str, fp |-> fp, ai |-> ai, out |-> out,
        pc |-> pc, ret |-> ret, overread |-> overread,
        scratchTop |-> scratchTop, wild |-> wild, d |-> d]

\* a va_arg whose argument is missing or of another type is outside the
\* contract of the call (spec section 3): the call is abandoned
BadArg(s) == [s EXCEPT !.pc = "badarg"]

(***************************************************************************)
(* Directive parser: the locals of a directive while it is parsed.  f is   *)
(* the format pointer, a the va_arg cursor, ok whether every va_arg so far *)
(* found an argument of its type.                                          *)
(***************************************************************************)
P0(s) ==
  [f |-> s.fp + 1, a |-> s.ai, ok |-> TRUE, zero_pad |-> FALSE,
   left |-> FALSE, width |-> 0, precision |-> -1, is_long |-> 0]

FlagsTo(s, p, f1) ==
  [p EXCEPT !.zero_pad = SawFlag(s, p.f, f1, "0"),
            !.left = SawFlag(s, p.f, f1, "-"), !.f = f1]

\* while the character is a flag: note '0' and '-', format++
ParseFlags(s, p, set) == FlagsTo(s, p, SkipSet(s, p.f, set))

WidthNum(p, r) == [p EXCEPT !.width = r.val, !.f = r.next]

\* the same with a negative argument read as '-' and its magnitude
ParseWidthLeft(s, p) ==
  IF Deref(s, p.f) = "*"
  THEN [p EXCEPT !.width = IF ArgAt(s, p.a).n < 0 THEN -ArgAt(s, p.a).n
                           ELSE ArgAt(s, p.a).n,
                 !.left = p.left \/ ArgAt(s, p.a).n < 0,
                 !.ok = p.ok /\ HasArg(s, p.a, {"int"}),
                 !.a = p.a + 1, !.f = p.f + 1]
  ELSE WidthNum(p, ParseNum(s, p.f, 0))

\* int width = 0; '*' takes it from va_arg(ap, int), else the digit run
ParseWidth(s, p) ==
  IF Deref(s, p.f) = "*"
  THEN [p EXCEPT !.width = ArgAt(s, p.a).n,
                 !.ok = p.ok /\ HasArg(s, p.a, {"int"}),
                 !.a = p.a + 1, !.f = p.f + 1]
  ELSE WidthNum(p, ParseNum(s, p.f, 0))

PrecNum(p, r) == [p EXCEPT !.precision = r.val, !.f = r.next]

\* int precision = -1; after '.': '*' takes it from va_arg(ap, int), else
\* the digit run, 0 when there is no digit
ParsePrecision(s, p) ==
  IF Deref(s, p.f) # "." THEN p
  ELSE IF Deref(s, p.f + 1) = "*"
  THEN [p EXCEPT !.precision = ArgAt(s, p.a).n,
                 !.ok = p.ok /\ HasArg(s, p.a, {"int"}),
                 !.a = p.a + 1, !.f = p.f + 2]
  ELSE PrecNum(p, ParseNum(s, p.f + 1, 0))

\* the directive handled, as the call keeps it
Handled(s, p, c, mem, o, a, fnext, top, kind, neg, content) ==
  [s EXCEPT !.str = mem, !.out = o, !.ai = a, !.fp = fnext,
            !.scratchTop = Max(s.scratchTop, top),
            !.d = Dir(kind, c, p.width, p.precision, p.zero_pad, p.left,
                      neg, content, s)]

(***************************************************************************)
(* doom: format_int                                                        *)
(***************************************************************************)
TmpSize == 24

\* tmp[i++] = d < 10 ? '0' + d : 'a' + d - 10, most significant digit last
DoomDigits(uval, base) == DigitsRev(uval, base, LowerHex)

\* the same with every precision that was written switching the zeros off
DoomUseZeroWritten(precision, zero_pad) ==
  IF precision # -1 THEN FALSE ELSE zero_pad

\* int use_zero = (precision >= 0) ? 0 : zero_pad;
DoomUseZero(precision, zero_pad) == IF precision >= 0 THEN FALSE ELSE zero_pad

DoomSign(neg) == IF neg THEN <<"-">> ELSE <<>>

\* sign, width fill, precision zeros and digits in the order they are stored
DoomText(neg, tmp, digit_pad, pad, use_zero) ==
  (IF use_zero THEN DoomSign(neg) ELSE <<>>)
  \o Rep(IF use_zero THEN "0" ELSE " ", pad)
  \o (IF use_zero THEN <<>> ELSE DoomSign(neg))
  \o Rep("0", digit_pad) \o Rev(tmp)

FormatIntStore(mem, off, bsize, text, neg, tmp, digit_pad) ==
  [mem |-> PutCounted(mem, off, off + bsize - 1, text),
   written |-> Len(text), scratch |-> Len(tmp), neg |-> neg,
   content |-> DoomSign(neg) \o Rep("0", digit_pad) \o Rev(tmp)]

FormatIntPad(mem, off, bsize, neg, tmp, digit_pad, width, use_zero) ==
  FormatIntStore(mem, off, bsize,
    DoomText(neg, tmp, digit_pad,
             IF width > Len(tmp) + digit_pad + (IF neg THEN 1 ELSE 0)
             THEN width - (Len(tmp) + digit_pad + (IF neg THEN 1 ELSE 0))
             ELSE 0,
             use_zero),
    neg, tmp, digit_pad)

FormatIntDigits(mem, off, bsize, neg, tmp, width, zero_pad, precision) ==
  FormatIntPad(mem, off, bsize, neg, tmp,
               IF precision > Len(tmp) THEN precision - Len(tmp) ELSE 0,
               width, DoomUseZero(precision, zero_pad))

format_int(mem, off, bsize, val, base, is_unsigned, width, zero_pad, precision) ==
  FormatIntDigits(mem, off, bsize, ~is_unsigned /\ val < 0,
                  DoomDigits(IF ~is_unsigned /\ val < 0 THEN -val ELSE val, base),
                  width, zero_pad, precision)

(***************************************************************************)
(* doom: vsnprintf                                                         *)
(***************************************************************************)
DoomFlags == {"0", "-", "+", " "}

\* the same with a position that keeps its value from call to call
DoomEntryStatic(s) ==
  IF s.size = 0 THEN [s EXCEPT !.ret = 0, !.pc = "done"]
  ELSE [s EXCEPT !.pc = "run"]

\* size_t pos = 0; if (size == 0) return 0;
DoomEntry(s) ==
  IF s.size = 0 THEN [s EXCEPT !.out = 0, !.ret = 0, !.pc = "done"]
  ELSE [s EXCEPT !.out = 0, !.pc = "run"]

\* the same with the terminator always in the last cell
DoomExitLast(s) ==
  [s EXCEPT !.str = IF s.size > 0 THEN Poke(s.str, s.size - 1, NUL) ELSE s.str,
            !.ret = s.out, !.pc = "done"]

\* if (size > 0) str[pos < size ? pos : size - 1] = '\0'; return (int)pos;
DoomExit(s) ==
  [s EXCEPT !.str = IF s.size > 0
                    THEN Poke(s.str, IF s.out < s.size THEN s.out ELSE s.size - 1, NUL)
                    ELSE s.str,
            !.ret = s.out, !.pc = "done"]

\* if (pos < size - 1) str[pos] = c; pos++;
DoomPutc(s, c) == PutCounted(s.str, s.out, s.size - 1, <<c>>)

\* is_long after 'l', 'll', 'h', 'hh' or 'z'
DoomLength(s, p) ==
  IF Deref(s, p.f) = "l"
  THEN (IF Deref(s, p.f + 1) = "l" THEN [p EXCEPT !.is_long = 2, !.f = p.f + 2]
        ELSE [p EXCEPT !.is_long = 1, !.f = p.f + 1])
  ELSE IF Deref(s, p.f) = "h"
  THEN (IF Deref(s, p.f + 1) = "h" THEN [p EXCEPT !.f = p.f + 2]
        ELSE [p EXCEPT !.f = p.f + 1])
  ELSE IF Deref(s, p.f) = "z" THEN [p EXCEPT !.is_long = 1, !.f = p.f + 1]
  ELSE p

DoomParse(s) ==
  DoomLength(s, ParsePrecision(s, ParseWidth(s, ParseFlags(s, P0(s), DoomFlags))))

\* if (*format) format++;
DoomAdvance(p, c) == IF c # NUL THEN p.f + 1 ELSE p.f

DoomIntDone(s, p, c, kind, r) ==
  Handled(s, p, c, r.mem, s.out + r.written, p.a + 1, DoomAdvance(p, c),
          r.scratch, kind, r.neg, r.content)

\* size > pos ? size - pos : 0
DoomRest(s, pos) == IF s.size > pos THEN s.size - pos ELSE 0

DoomInt(s, p, c, arg, base, uns, kind) ==
  IF ~(IF uns THEN HasUnsigned(s, p.a) ELSE HasArg(s, p.a, {"int"}))
  THEN BadArg(s)
  ELSE DoomIntDone(s, p, c, kind,
         format_int(s.str, s.out, DoomRest(s, s.out), arg.n, base, uns,
                    p.width, p.zero_pad, p.precision))

DoomPtrDone(s, p, c, p1, r) ==
  Handled(s, p, c, r.mem, p1 + r.written, p.a + 1, DoomAdvance(p, c),
          r.scratch, "p", FALSE, <<"0", "x">> \o r.content)

\* if (pos < size - 1) str[pos++] = '0'; if (pos < size - 1) str[pos++] = 'x';
DoomPtrDigits(s, p, c, arg, m1, p1) ==
  DoomPtrDone(s, p, c, p1,
    format_int(m1, p1, DoomRest(s, p1), arg.n, 16, TRUE, 0, FALSE, -1))

DoomPtr(s, p, c, arg) ==
  IF ~HasArg(s, p.a, {"ptr", "null"}) THEN BadArg(s)
  ELSE DoomPtrDigits(s, p, c, arg,
         PutClipped(s.str, s.out, s.size - 1, <<"0", "x">>),
         s.out + Fit(s.out, s.size - 1, <<"0", "x">>))

\* if (!s) s = "(null)";
DoomStrSource(arg) == IF arg.t = "null" THEN NullText ELSE arg.s

\* if (precision >= 0 && precision < slen) slen = precision;
DoomStrText(src, precision) ==
  IF precision >= 0 /\ precision < Len(src) THEN Take(src, precision) ELSE src

DoomText1(s, p, c, text, a, kind) ==
  Handled(s, p, c, PutCounted(s.str, s.out, s.size - 1, text),
          s.out + Len(text), a, DoomAdvance(p, c), 0, kind, FALSE, text)

\* default: the character alone
DoomDefault(c) == <<c>>

DoomSwitch(s, p, c, arg) ==
  CASE c \in {"d", "i"} -> DoomInt(s, p, c, arg, 10, FALSE, "d")
    [] c = "u" -> DoomInt(s, p, c, arg, 10, TRUE, "u")
    [] c \in {"x", "X"} -> DoomInt(s, p, c, arg, 16, TRUE, "x")
    [] c = "p" -> DoomPtr(s, p, c, arg)
    [] c = "s" ->
         IF ~HasArg(s, p.a, {"str", "null"}) THEN BadArg(s)
         ELSE DoomText1(s, p, c, DoomStrText(DoomStrSource(arg), p.precision),
                        p.a + 1, "s")
    [] c = "c" ->
         IF ~HasArg(s, p.a, {"chr"}) THEN BadArg(s)
         ELSE DoomText1(s, p, c, arg.s, p.a + 1, "c")
    [] c = "%" -> DoomText1(s, p, c, <<"%">>, p.a, "%")
    [] OTHER -> DoomText1(s, p, c, DoomDefault(c), p.a, "default")

DoomConvert(s, p) ==
  IF ~p.ok THEN BadArg(s) ELSE DoomSwitch(s, p, Deref(s, p.f), ArgAt(s, p.a))

DoomDirective(s) == DoomConvert(s, DoomParse(s))

DoomLoop(s, c) ==
  IF c = NUL THEN DoomExit(s)
  ELSE IF c # "%"
  THEN [s EXCEPT !.str = DoomPutc(s, c), !.out = s.out + 1,
                 !.fp = s.fp + 1, !.d = NoDir]
  ELSE DoomDirective(s)

\* one iteration of the loop over the template, or the code after the loop
DoomStep(s) == DoomLoop(s, Deref(s, s.fp))

(***************************************************************************)
(* quickjs, sqlite, tcc: the cursor pair out / end                         *)
(***************************************************************************)
\* width of an address and of size_t in the model (64 in the code)
AddrBits == 20

\* SIZE_MAX and UINT64_MAX
SizeMax == 2 ^ AddrBits - 1

\* the address of the destination
StrAddr == 4096

\* char *end = str + size - 1, the sum taken modulo 2^AddrBits, as an index
\* into str (-1 when size is 0)
End(s) == ((StrAddr + s.size - 1) % (2 ^ AddrBits)) - StrAddr

\* *out = '\0'; return out - str;
ClipExit(s) == [s EXCEPT !.str = Poke(s.str, s.out, NUL), !.ret = s.out,
                         !.pc = "done"]

\* while (... && out < end) *out++ = text[k], from cell o of mem
ClipEmit(s, p, c, mem, o, text, a, fnext, top, kind, neg, content) ==
  Handled(s, p, c, PutClipped(mem, o, End(s), text),
          o + Fit(o, End(s), text), a, fnext, top, kind, neg, content)

\* *out++ = *format++;
ClipPutc(s, c) ==
  [s EXCEPT !.str = Poke(s.str, s.out, c), !.out = s.out + 1,
            !.fp = s.fp + 1, !.d = NoDir]

Sign(neg) == IF neg THEN <<"-">> ELSE <<>>

\* the scratch array of an integer conversion, read back from the top:
\* digits, then '-', then while (i < width) buf[i++] = zero_pad ? '0' : ' '
ScratchText(digits, neg, width, zero_pad) ==
  Rev(digits \o Sign(neg)
      \o Rep(IF zero_pad THEN "0" ELSE " ", width - Len(digits \o Sign(neg))))

ScratchCount(digits, neg, width) ==
  Max(Len(digits) + (IF neg THEN 1 ELSE 0), width)

\* A store buf[i++] with i at or above the array size lands in whatever the
\* build keeps above buf on the stack: nothing live (the call goes on), or
\* the locals out / end / format of the call, and then the next store
\* through out leaves the destination.
Smash(s, top, e) ==
  IF e.clob THEN [s EXCEPT !.scratchTop = Max(s.scratchTop, top),
                         !.wild = TRUE, !.pc = "crash"]
  ELSE s

ScratchGuard(r, top, bufsize, e) ==
  IF top > bufsize THEN Smash(r, top, e) ELSE r

\* digits into buf, sign, fill up to width inside buf, then buf copied out
\* from the top
ScratchEmit(s, p, c, e, kind, neg, digits, bufsize) ==
  ScratchGuard(
    ClipEmit(s, p, c, s.str, s.out,
             ScratchText(digits, neg, p.width, p.zero_pad), p.a + 1, p.f + 1,
             ScratchCount(digits, neg, p.width), kind, neg,
             Sign(neg) \o Rev(digits)),
    ScratchCount(digits, neg, p.width), bufsize, e)

\* width of long long in the model (64 in the code)
LongLongBits == 16

LLongMin == -(2 ^ (LongLongBits - 1))

\* a signed long long result kept modulo 2^LongLongBits
SignedWrap(x) ==
  ((x + 2 ^ (LongLongBits - 1)) % (2 ^ LongLongBits)) - 2 ^ (LongLongBits - 1)

\* if (neg) val = -val; on a long long.  For the most negative value the
\* negation overflows: the build either keeps the wrapped value, which is
\* the same negative number, or goes on with the magnitude in an unsigned
\* register.
Negate(val, e) == IF e.wraps THEN SignedWrap(-val) ELSE -val

\* '0' + r for the remainders r = 0, -1, ... -9 of a negative val
BelowZero == <<"0", "/", ".", "-", ",", "+", "*", ")", "(", "'">>

\* do { buf[i++] = '0' + (val % 10); val /= 10; } while (val); the division
\* of C truncates, so a negative val leaves negative remainders
ScratchDigits(val, table) ==
  IF val < 0 THEN DigitsRev(-val, 10, BelowZero)
  ELSE DigitsRev(val, Len(table), table)

ScratchInt(s, p, c, arg, table, signed, kind, e, bufsize) ==
  IF ~(IF signed THEN HasArg(s, p.a, {"int"}) ELSE HasUnsigned(s, p.a))
  THEN BadArg(s)
  ELSE ScratchEmit(s, p, c, e, kind, signed /\ arg.n < 0,
                   ScratchDigits(IF signed /\ arg.n < 0 THEN Negate(arg.n, e)
                                 ELSE arg.n, table),
                   bufsize)

\* '0', 'x', then the hex digits of the pointer, no width
ScratchPtr(s, p, c, arg, digits) ==
  IF ~HasArg(s, p.a, {"ptr", "null"}) THEN BadArg(s)
  ELSE ClipEmit(s, p, c, s.str, s.out, <<"0", "x">> \o Rev(digits), p.a + 1,
                p.f + 1, Len(digits), "p", FALSE, <<"0", "x">> \o Rev(digits))

\* text of a conversion that uses no scratch array; format++ unconditional
ClipText(s, p, c, text, a, kind) ==
  ClipEmit(s, p, c, s.str, s.out, text, a, p.f + 1, 0, kind, FALSE, text)

Decimal == SubSeq(LowerHex, 1, 10)

(***************************************************************************)
(* quickjs: vsnprintf                                                      *)
(***************************************************************************)
QjsBufSize == 32

QjsFlags == {"-", "0", "+", " ", "#"}

QjsFloat == {"f", "F", "e", "E", "g", "G", "n"}

\* char *out = str; char *end = str + size - 1; if (size == 0) return 0;
QjsEntry(s) ==
  IF s.size = 0 THEN [s EXCEPT !.out = 0, !.ret = 0, !.pc = "done"]
  ELSE [s EXCEPT !.out = 0, !.pc = "run"]

\* the same without the test of s against NULL
QjsStrSourceUnchecked(arg) == arg.s

\* if (!s) s = "(null)";
QjsStrSource(arg) == IF arg.t = "null" THEN NullText ELSE arg.s

\* if (precision >= 0 && len > precision) len = precision;
QjsStrText(src, precision) ==
  IF precision >= 0 /\ Len(src) > precision THEN Take(src, precision) ELSE src

\* default: '%' and the character
QjsDefault(c) == <<"%", c>>

\* 'l', 'll', 'z', 'h', 'hh'
QjsLength(s, p) ==
  IF Deref(s, p.f) = "l"
  THEN (IF Deref(s, p.f + 1) = "l" THEN [p EXCEPT !.is_long = 2, !.f = p.f + 2]
        ELSE [p EXCEPT !.is_long = 1, !.f = p.f + 1])
  ELSE IF Deref(s, p.f) = "z" THEN [p EXCEPT !.is_long = 1, !.f = p.f + 1]
  ELSE IF Deref(s, p.f) = "h"
  THEN (IF Deref(s, p.f + 1) = "h" THEN [p EXCEPT !.f = p.f + 2]
        ELSE [p EXCEPT !.f = p.f + 1])
  ELSE p

QjsParse(s) ==
  QjsLength(s, ParsePrecision(s, ParseWidth(s, ParseFlags(s, P0(s), QjsFlags))))

QjsSwitch(s, p, c, arg, e) ==
  CASE c = "s" ->
         IF ~HasArg(s, p.a, {"str", "null"}) THEN BadArg(s)
         ELSE ClipText(s, p, c, QjsStrText(QjsStrSource(arg), p.precision),
                       p.a + 1, "s")
    [] c \in {"d", "i"} ->
         ScratchInt(s, p, c, arg, Decimal, TRUE, "d", e, QjsBufSize)
    [] c = "u" -> ScratchInt(s, p, c, arg, Decimal, FALSE, "u", e, QjsBufSize)
    [] c = "x" -> ScratchInt(s, p, c, arg, LowerHex, FALSE, "x", e, QjsBufSize)
    [] c = "X" -> ScratchInt(s, p, c, arg, UpperHex, FALSE, "x", e, QjsBufSize)
    [] c = "p" -> ScratchPtr(s, p, c, arg, DigitsRev(arg.n, 16, LowerHex))
    [] c = "c" ->
         IF ~HasArg(s, p.a, {"chr"}) THEN BadArg(s)
         ELSE ClipText(s, p, c, arg.s, p.a + 1, "c")
    [] c \in QjsFloat -> [s EXCEPT !.pc = "float"]
    [] c = "%" -> ClipText(s, p, c, <<"%">>, p.a, "%")
    [] OTHER -> ClipText(s, p, c, QjsDefault(c), p.a, "default")

QjsConvert(s, p, e) ==
  IF ~p.ok THEN BadArg(s)
  ELSE QjsSwitch(s, p, Deref(s, p.f), ArgAt(s, p.a), e)

QjsDirective(s, e) == QjsConvert(s, QjsParse(s), e)

QjsLoop(s, e, c) ==
  IF c = NUL \/ ~(s.out < End(s)) THEN ClipExit(s)
  ELSE IF c # "%" THEN ClipPutc(s, c)
  ELSE QjsDirective(s, e)

\* one iteration of while (*format && out < end), or the code after the loop
QjsStep(s, e) == QjsLoop(s, e, Deref(s, s.fp))

(***************************************************************************)
(* sqlite: vsnprintf                                                       *)
(***************************************************************************)
SqliteBufSize == 32

\* char *out = str; char *end = str + size - 1; (no test of size)
SqliteEntry(s) == [s EXCEPT !.out = 0, !.pc = "run"]

\* if (!s) s = "(null)";
SqliteStrSource(arg) == IF arg.t = "null" THEN NullText ELSE arg.s

\* if (*format == '0') { zero_pad = 1; format++; }
SqliteZero(s, p) ==
  IF Deref(s, p.f) = "0" THEN [p EXCEPT !.zero_pad = TRUE, !.f = p.f + 1] ELSE p

\* while (isdigit(*format)) width = width * 10 + digit
SqliteWidth(s, p) == WidthNum(p, ParseNum(s, p.f, 0))

\* 'l', 'll'
SqliteLength(s, p) ==
  IF Deref(s, p.f) = "l"
  THEN (IF Deref(s, p.f + 1) = "l" THEN [p EXCEPT !.is_long = 2, !.f = p.f + 2]
        ELSE [p EXCEPT !.is_long = 1, !.f = p.f + 1])
  ELSE p

SqliteParse(s) == SqliteLength(s, SqliteWidth(s, SqliteZero(s, P0(s))))

SqliteSwitch(s, p, c, arg, e) ==
  CASE c = "s" ->
         IF ~HasArg(s, p.a, {"str", "null"}) THEN BadArg(s)
         ELSE ClipText(s, p, c, SqliteStrSource(arg), p.a + 1, "s")
    [] c \in {"d", "i"} ->
         ScratchInt(s, p, c, arg, Decimal, TRUE, "d", e, SqliteBufSize)
    [] c = "u" ->
         ScratchInt(s, p, c, arg, Decimal, FALSE, "u", e, SqliteBufSize)
    [] c = "x" ->
         ScratchInt(s, p, c, arg, LowerHex, FALSE, "x", e, SqliteBufSize)
    [] c = "X" ->
         ScratchInt(s, p, c, arg, UpperHex, FALSE, "x", e, SqliteBufSize)
    [] c = "p" -> ScratchPtr(s, p, c, arg, DigitsRev(arg.n, 16, LowerHex))
    [] c = "c" ->
         IF ~HasArg(s, p.a, {"chr"}) THEN BadArg(s)
         ELSE ClipText(s, p, c, arg.s, p.a + 1, "c")
    [] c = "%" -> ClipText(s, p, c, <<"%">>, p.a, "%")
    [] OTHER -> ClipText(s, p, c, <<"%", c>>, p.a, "default")

SqliteConvert(s, p, e) ==
  SqliteSwitch(s, p, Deref(s, p.f), ArgAt(s, p.a), e)

SqliteDirective(s, e) == SqliteConvert(s, SqliteParse(s), e)

SqliteLoop(s, e, c) ==
  IF c = NUL \/ ~(s.out < End(s)) THEN ClipExit(s)
  ELSE IF c # "%" THEN ClipPutc(s, c)
  ELSE SqliteDirective(s, e)

\* one iteration of while (*format && out < end), or the code after the loop
SqliteStep(s, e) == SqliteLoop(s, e, Deref(s, s.fp))

(***************************************************************************)
(* tcc: vsnprintf                                                          *)
(***************************************************************************)
TccBufSize == 64

\* char *out = str; char *end = str + size - 1; if (size == 0) return 0;
TccEntry(s) ==
  IF s.size = 0 THEN [s EXCEPT !.out = 0, !.ret = 0, !.pc = "done"]
  ELSE [s EXCEPT !.out = 0, !.pc = "run"]

\* if (!s) s = "(null)";
TccStrSource(arg) == IF arg.t = "null" THEN NullText ELSE arg.s

\* while (s[len] && (precision < 0 || len < precision)) len++;
TccStrText(src, precision) == IF precision < 0 THEN src ELSE Take(src, precision)

\* pad first unless left_justify, then the content, then pad if left_justify
TccField(content, width, left_justify, fill) ==
  IF left_justify THEN content \o Rep(" ", width - Len(content))
  ELSE Rep(fill, width - Len(content)) \o content

TccFill(p) == IF p.zero_pad THEN "0" ELSE " "

\* if (*format == '-') { left_justify = 1; format++; }
TccLeft(s, p) ==
  IF Deref(s, p.f) = "-" THEN [p EXCEPT !.left = TRUE, !.f = p.f + 1] ELSE p

\* if (*format == '0') { zero_pad = 1; format++; }
TccZero(s, p) ==
  IF Deref(s, p.f) = "0" THEN [p EXCEPT !.zero_pad = TRUE, !.f = p.f + 1] ELSE p

\* 'l', 'll', 'z'
TccLength(s, p) ==
  IF Deref(s, p.f) = "l"
  THEN (IF Deref(s, p.f + 1) = "l" THEN [p EXCEPT !.is_long = 2, !.f = p.f + 2]
        ELSE [p EXCEPT !.is_long = 1, !.f = p.f + 1])
  ELSE IF Deref(s, p.f) = "z" THEN [p EXCEPT !.is_long = 1, !.f = p.f + 1]
  ELSE p

TccParse(s) ==
  TccLength(s, ParsePrecision(s, ParseWidth(s, TccZero(s, TccLeft(s, P0(s))))))

\* if (*format) format++;
TccAdvance(p, c) == IF c # NUL THEN p.f + 1 ELSE p.f

TccEmit(s, p, c, mem, o, text, a, top, kind, neg, content) ==
  ClipEmit(s, p, c, mem, o, text, a, TccAdvance(p, c), top, kind, neg, content)

\* the field of a number whose characters are body
TccNumber(s, p, c, mem, o, body, width, kind, neg, content) ==
  TccEmit(s, p, c, mem, o, TccField(body, width, p.left, TccFill(p)),
          p.a + 1, Len(body), kind, neg, content)

TccSigned(s, p, c, neg, digits) ==
  TccNumber(s, p, c, s.str, s.out, Sign(neg) \o Rev(digits), p.width, "d",
            neg, Sign(neg) \o Rev(digits))

TccUnsigned(s, p, c, body) ==
  TccNumber(s, p, c, s.str, s.out, body, p.width,
            IF c = "u" THEN "u" ELSE "x", FALSE, body)

\* if (out < end) *out++ = '0'; if (out < end) *out++ = 'x'; width -= 2;
TccPtr(s, p, c, body) ==
  TccNumber(s, p, c, PutClipped(s.str, s.out, End(s), <<"0", "x">>),
            s.out + Fit(s.out, End(s), <<"0", "x">>), body, p.width - 2,
            "p", FALSE, <<"0", "x">> \o body)

\* default: '%', then the character unless it is the terminator
TccDefault(c) == IF c # NUL THEN <<"%", c>> ELSE <<"%">>

TccPlain(s, p, c, text, a, kind) ==
  TccEmit(s, p, c, s.str, s.out, text, a, 0, kind, FALSE, text)

TccString(s, p, c, text) ==
  TccEmit(s, p, c, s.str, s.out, TccField(text, p.width, p.left, " "),
          p.a + 1, 0, "s", FALSE, text)

TccSwitch(s, p, c, arg) ==
  CASE c = "s" ->
         IF ~HasArg(s, p.a, {"str", "null"}) THEN BadArg(s)
         ELSE TccString(s, p, c, TccStrText(TccStrSource(arg), p.precision))
    [] c \in {"d", "i"} ->
         IF ~HasArg(s, p.a, {"int"}) THEN BadArg(s)
         ELSE TccSigned(s, p, c, arg.n < 0,
                        DigitsRev(IF arg.n < 0 THEN -arg.n ELSE arg.n, 10,
                                  LowerHex))
    [] c \in {"u", "x", "X"} ->
         IF ~HasUnsigned(s, p.a) THEN BadArg(s)
         ELSE TccUnsigned(s, p, c,
                Rev(DigitsRev(arg.n, IF c = "u" THEN 10 ELSE 16,
                              IF c = "X" THEN UpperHex ELSE LowerHex)))
    [] c = "p" ->
         IF ~HasArg(s, p.a, {"ptr", "null"}) THEN BadArg(s)
         ELSE TccPtr(s, p, c, Rev(DigitsRev(arg.n, 16, LowerHex)))
    [] c = "c" ->
         IF ~HasArg(s, p.a, {"chr"}) THEN BadArg(s)
         ELSE TccPlain(s, p, c, arg.s, p.a + 1, "c")
    [] c = "%" -> TccPlain(s, p, c, <<"%">>, p.a, "%")
    [] OTHER -> TccPlain(s, p, c, TccDefault(c), p.a, "default")

TccConvert(s, p) ==
  IF ~p.ok THEN BadArg(s) ELSE TccSwitch(s, p, Deref(s, p.f), ArgAt(s, p.a))

TccDirective(s) == TccConvert(s, TccParse(s))

TccLoop(s, c) ==
  IF c = NUL \/ ~(s.out < End(s)) THEN ClipExit(s)
  ELSE IF c # "%" THEN ClipPutc(s, c)
  ELSE TccDirective(s)

\* one iteration of while (*format && out < end), or the code after the loop
TccStep(s) == TccLoop(s, Deref(s, s.fp))


(***************************************************************************)
(* Bounds and the inputs of the calls                                      *)
(***************************************************************************)
MaxTokens == 2
MaxSize == 3
BigSize == 72
MaxTail == 1

Tok(text, args) == [format |-> text, ap |-> args]

Hello == <<"h", "e", "l", "l", "o">>

Tokens ==
  { Tok(<<"a">>, <<>>),
    Tok(<<"%", "d">>, <<IntArg(42)>>),
    Tok(<<"%", "d">>, <<IntArg(-42)>>),
    Tok(<<"%", "5", "d">>, <<IntArg(42)>>),
    Tok(<<"%", "0", "5", "d">>, <<IntArg(-42)>>),
    Tok(<<"%", "-", "5", "d">>, <<IntArg(42)>>),
    Tok(<<"%", "3", "3", "d">>, <<IntArg(1)>>),
    Tok(<<"%", "*", "d">>, <<IntArg(3), IntArg(7)>>),
    Tok(<<"%", "s">>, <<StrArg(Hello)>>),
    Tok(<<"%", "s">>, <<NullArg>>),
    Tok(<<"%", ".", "2", "s">>, <<StrArg(Hello)>>),
    Tok(<<"%", ".", "2", "s">>, <<NullArg>>),
    Tok(<<"%", "5", "s">>, <<StrArg(<<"h", "i">>)>>),
    Tok(<<"%", "c">>, <<ChrArg("z")>>),
    Tok(<<"%", "%">>, <<>>),
    Tok(<<"%", "q">>, <<>>),
    Tok(<<"%">>, <<>>),
    Tok(<<"%", "p">>, <<PtrArg(255)>>),
    Tok(<<"%", "x">>, <<IntArg(255)>>),
    Tok(<<"%", "X">>, <<IntArg(255)>>),
    Tok(<<"%", "l", "u">>, <<IntArg(7)>>) }

RepeatTokens ==
  { Tok(<<"a">>, <<>>),
    Tok(<<"%", "0", "5", "d">>, <<IntArg(-42)>>),
    Tok(<<"%", "s">>, <<StrArg(Hello)>>),
    Tok(<<"%", "p">>, <<PtrArg(255)>>),
    Tok(<<"%">>, <<>>) }

\* directives with several flags, precision, argument-sourced width and
\* length modifiers
DetailTokens ==
  { Tok(<<"a">>, <<>>),
    Tok(<<"%", "d">>, <<IntArg(42)>>),
    Tok(<<"%", "-", "0", "5", "d">>, <<IntArg(42)>>),
    Tok(<<"%", "0", "-", "5", "d">>, <<IntArg(42)>>),
    Tok(<<"%", "0", "5", ".", "3", "d">>, <<IntArg(42)>>),
    Tok(<<"%", "8", ".", "5", "d">>, <<IntArg(42)>>),
    Tok(<<"%", ".", "2", "s">>, <<StrArg(Hello)>>),
    Tok(<<"%", ".", "7", "s">>, <<StrArg(Hello)>>),
    Tok(<<"%", "0", "5", "s">>, <<StrArg(<<"h", "i">>)>>),
    Tok(<<"%", "*", "d">>, <<IntArg(3), IntArg(7)>>),
    Tok(<<"%", "*", ".", "*", "d">>, <<IntArg(5), IntArg(3), IntArg(7)>>),
    Tok(<<"%", "%">>, <<>>),
    Tok(<<"%", "l", "u">>, <<IntArg(7)>>),
    Tok(<<"%", "l", "l", "d">>, <<IntArg(42)>>),
    Tok(<<"%", "z", "u">>, <<IntArg(7)>>),
    Tok(<<"%", "h", "d">>, <<IntArg(42)>>) }

\* width and precision from negative arguments, a '.' without digits, a
\* width before a string, and the most negative long long
EdgeTokens ==
  { Tok(<<"a">>, <<>>),
    Tok(<<"%", "*", "d">>, <<IntArg(-3), IntArg(7)>>),
    Tok(<<"%", "*", "s">>, <<IntArg(-4), StrArg(<<"h", "i">>)>>),
    Tok(<<"%", ".", "*", "s">>, <<IntArg(-2), StrArg(Hello)>>),
    Tok(<<"%", "0", "5", ".", "*", "d">>, <<IntArg(-2), IntArg(42)>>),
    Tok(<<"%", ".", "s">>, <<StrArg(Hello)>>),
    Tok(<<"%", "2", "s">>, <<StrArg(Hello)>>),
    Tok(<<"%", "d">>, <<IntArg(-42)>>),
    Tok(<<"%", "l", "l", "d">>, <<IntArg(LLongMin)>>) }

\* the local arrays of the stream wrappers: char buf[512], char buf[1024]
DoomStreamBuf == 512
QjsStreamBuf == 1024
TccStreamBuf == 1024

\* a string argument longer than the smaller local array
LongText == Rep("x", DoomStreamBuf + BigSize)

\* what the callers of the stream wrappers pass
StreamTokens ==
  { Tok(<<"a">>, <<>>),
    Tok(<<"%", "d">>, <<IntArg(42)>>),
    Tok(<<"%", "s">>, <<StrArg(LongText)>>),
    Tok(<<"%", "6", "0", "0", "d">>, <<IntArg(42)>>) }

\* what each of two concurrent callers may pass
PairTokens ==
  { Tok(<<"a">>, <<>>),
    Tok(<<"%", "0", "5", "d">>, <<IntArg(-42)>>),
    Tok(<<"%", "p">>, <<PtrArg(255)>>) }

Variants == {"doom", "quickjs", "sqlite", "tcc"}

RECURSIVE Templates(_, _)
\* the templates made of at most n tokens, with their argument sequences
Templates(toks, n) ==
  IF n = 0 THEN {Tok(<<>>, <<>>)}
  ELSE Templates(toks, n - 1)
       \cup {Tok(x.format \o t.format, x.ap \o t.ap) :
               x \in Templates(toks, n - 1), t \in toks}

Sizes == (0..MaxSize) \cup {BigSize}

RepeatSizes == {0, MaxSize, BigSize}

DetailSizes == {MaxSize, BigSize}

PairSizes == {MaxSize - 1, BigSize}

Calls(toks, n, sizes) ==
  {[variant |-> v, format |-> x.format, ap |-> x.ap, size |-> k] :
     v \in Variants, x \in Templates(toks, n), k \in sizes}

\* vfprintf of doom, printf / vprintf / fprintf of quickjs and vfprintf of
\* tcc pass their local array and its sizeof
StreamSize(v) ==
  CASE v = "doom" -> DoomStreamBuf
    [] v = "quickjs" -> QjsStreamBuf
    [] OTHER -> TccStreamBuf

StreamCalls ==
  {[variant |-> v, format |-> x.format, ap |-> x.ap, size |-> StreamSize(v)] :
     v \in Variants \ {"sqlite"}, x \in Templates(StreamTokens, MaxTokens)}

\* vsprintf of doom passes 65536
DoomSprintfSize == 65536

\* sprintf of tcc passes 0xFFFFFFFF, the largest value of half the width of
\* size_t
TccSprintfSize == 2 ^ (AddrBits \div 2) - 1

\* the capacity sprintf / vsprintf pass to vsnprintf
SprintfSize(v) ==
  CASE v = "doom" -> DoomSprintfSize
    [] v = "quickjs" -> SizeMax
    [] v = "sqlite" -> SizeMax
    [] OTHER -> TccSprintfSize

SprintfCalls ==
  {[variant |-> v, format |-> x.format, ap |-> x.ap, size |-> SprintfSize(v)] :
     v \in Variants, x \in Templates(RepeatTokens, MaxTokens)}

Pool(p) ==
  CASE p = "wide" -> Calls(Tokens, MaxTokens, Sizes)
    [] p = "repeat" -> Calls(RepeatTokens, 1, RepeatSizes)
    [] p = "detail" -> Calls(DetailTokens, MaxTokens, DetailSizes)
    [] p = "edge" -> Calls(EdgeTokens, MaxTokens, DetailSizes)
    [] p = "stream" -> StreamCalls
    [] p = "sprintf" -> SprintfCalls
    [] OTHER -> Calls(PairTokens, 1, PairSizes)

TailChars == {"a", "%"}

RECURSIVE SeqsUpTo(_, _)
SeqsUpTo(S, n) ==
  IF n = 0 THEN {<<>>}
  ELSE SeqsUpTo(S, n - 1)
       \cup {Append(q, c) : q \in SeqsUpTo(S, n - 1), c \in S}

Tails == SeqsUpTo(TailChars, MaxTail)

Env == [tail : Tails, clob : BOOLEAN, wraps : BOOLEAN]

Benign == [tail |-> <<>>, clob |-> FALSE, wraps |-> FALSE]

(***************************************************************************)
(* One call                                                                *)
(***************************************************************************)
\* the cells of the destination: as many as the capacity says, and behind
\* the capacity of an unbounded wrapper the array of the caller, which has
\* room for every rendering
Cells(n) == IF n > QjsStreamBuf THEN BigSize ELSE n

\* the frame of a call that has not run a statement yet: the locals hold
\* whatever was there
Frame(in) ==
  [variant |-> in.variant, format |-> in.format, tail |-> <<>>, ap |-> in.ap,
   size |-> in.size, str |-> [i \in 0..Cells(in.size) |-> Untouched], fp |-> 1,
   ai |-> 0, out |-> out, pc |-> "entry", ret |-> ret, overread |-> FALSE,
   scratchTop |-> 0, wild |-> FALSE, d |-> NoDir]

Entry(s) ==
  CASE s.variant = "doom" -> DoomEntry(s)
    [] s.variant = "quickjs" -> QjsEntry(s)
    [] s.variant = "sqlite" -> SqliteEntry(s)
    [] OTHER -> TccEntry(s)

\* a read of *format beyond the terminator of the template
Fetch(s, e) ==
  IF s.fp > Len(s.format) + 1 /\ ~s.overread
  THEN [s EXCEPT !.overread = TRUE, !.tail = e.tail]
  ELSE s

Step(s, e) ==
  CASE s.variant = "doom" -> DoomStep(Fetch(s, e))
    [] s.variant = "quickjs" -> QjsStep(Fetch(s, e), e)
    [] s.variant = "sqlite" -> SqliteStep(Fetch(s, e), e)
    [] OTHER -> TccStep(Fetch(s, e))

RECURSIVE Run(_)
\* the call run to its end where nothing lies behind the template and no
\* scratch overflow hits a live local
Run(s) == IF s.pc = "run" THEN Run(Step(s, Benign)) ELSE s

Install(s) ==
  /\ variant' = s.variant /\ format' = s.format /\ tail' = s.tail
  /\ ap' = s.ap /\ size' = s.size /\ str' = s.str /\ fp' = s.fp
  /\ ai' = s.ai /\ out' = s.out /\ pc' = s.pc /\ ret' = s.ret
  /\ overread' = s.overread /\ scratchTop' = s.scratchTop
  /\ wild' = s.wild /\ d' = s.d

\* the variables of the first context hold the record s
Install0(s) ==
  /\ variant = s.variant /\ format = s.format /\ tail = s.tail
  /\ ap = s.ap /\ size = s.size /\ str = s.str /\ fp = s.fp
  /\ ai = s.ai /\ out = s.out /\ pc = s.pc /\ ret = s.ret
  /\ overread = s.overread /\ scratchTop = s.scratchTop
  /\ wild = s.wild /\ d = s.d

NoMemo == [variant |-> "none", format |-> <<>>, ap |-> <<>>, size |-> 0,
           str |-> [i \in 0..0 |-> Untouched], ret |-> 0]

Result == [variant |-> variant, format |-> format, ap |-> ap, size |-> size,
           str |-> str, ret |-> ret]

\* an execution context that has not called yet
Idle ==
  [variant |-> "none", format |-> <<>>, tail |-> <<>>, ap |-> <<>>,
   size |-> 0, str |-> [i \in 0..0 |-> Untouched], fp |-> 1, ai |-> 0,
   out |-> 0, pc |-> "idle", ret |-> 0, overread |-> FALSE,
   scratchTop |-> 0, wild |-> FALSE, d |-> NoDir]

(***************************************************************************)
(* The stream wrappers: render into a local array, forward it              *)
(***************************************************************************)
NoSent == [fn |-> "none", count |-> 0, bytes |-> <<>>, ret |-> 0]

Outside == "outside"

\* the bytes the output primitive reads: buf[0] .. buf[n - 1]
Peek(n) ==
  [k \in 1..Max(n, 0) |-> IF k - 1 \in DOMAIN str THEN str[k - 1] ELSE Outside]

Forward(fn, n, r) == [fn |-> fn, count |-> n, bytes |-> Peek(n), ret |-> r]

\* the same with the length passed on as it is
DoomForwardAll(len) == len

\* len < (int)sizeof(buf) ? len : (int)sizeof(buf) - 1
DoomForward(len) == IF len < DoomStreamBuf THEN len ELSE DoomStreamBuf - 1

\* doom vfprintf after its vsnprintf returned: akuma_print(buf, ...);
\* return len;
DoomVfprintf ==
  /\ pool = "stream" /\ variant = "doom" /\ pc = "done" /\ sent.fn = "none"
  /\ sent' = Forward("vfprintf", DoomForward(ret), ret)
  /\ UNCHANGED <<engine, file_pool, fds, handles, fres, closes, wad, rd>>

\* quickjs: akuma_print(buf, result); return result;
QjsForward(result) == result

QjsPrintf ==
  /\ pool = "stream" /\ variant = "quickjs" /\ pc = "done" /\ sent.fn = "none"
  /\ sent' = Forward("printf", QjsForward(ret), ret)
  /\ UNCHANGED <<engine, file_pool, fds, handles, fres, closes, wad, rd>>

QjsVprintf ==
  /\ pool = "stream" /\ variant = "quickjs" /\ pc = "done" /\ sent.fn = "none"
  /\ sent' = Forward("vprintf", QjsForward(ret), ret)
  /\ UNCHANGED <<engine, file_pool, fds, handles, fres, closes, wad, rd>>

QjsFprintf ==
  /\ pool = "stream" /\ variant = "quickjs" /\ pc = "done" /\ sent.fn = "none"
  /\ sent' = Forward("fprintf", QjsForward(ret), ret)
  /\ UNCHANGED <<engine, file_pool, fds, handles, fres, closes, wad, rd>>

\* tcc: if (len > 0) fwrite(buf, 1, len, stream); return len;
TccForward(len) == IF len > 0 THEN len ELSE 0

TccVfprintf ==
  /\ pool = "stream" /\ variant = "tcc" /\ pc = "done" /\ sent.fn = "none"
  /\ sent' = Forward("vfprintf", TccForward(ret), ret)
  /\ UNCHANGED <<engine, file_pool, fds, handles, fres, closes, wad, rd>>

(***************************************************************************)
(* doom: the FILE pool.  A handle is the index of its slot; the kernel     *)
(* keeps the set fds of open descriptors.  fopen and fclose compare a      *)
(* descriptor with 0 only, so which free number akuma_open hands out makes *)
(* no difference: it is the lowest one.                                    *)
(***************************************************************************)
MAX_FILES == 16

\* the null FILE pointer, where a handle is the index of a slot
NULL == -1

Slots == 0..(MAX_FILES - 1)

\* a zeroed DoomFile, as in the static array before its first use
ZeroFile ==
  [fd |-> 0, error |-> 0, eof_flag |-> 0, position |-> 0, in_use |-> 0]

RECURSIVE FirstFree(_, _)
\* for (int i = 0; i < MAX_FILES; i++) if (!file_pool[i].in_use) ...
FirstFree(pl, i) ==
  IF i >= MAX_FILES THEN NULL
  ELSE IF pl[i].in_use = 0 THEN i ELSE FirstFree(pl, i + 1)

\* the same without the mark
ClaimSlotUnmarked(pl, i) == [pl EXCEPT ![i] = ZeroFile]

\* memset(&file_pool[i], 0, sizeof(DoomFile)); file_pool[i].in_use = 1;
ClaimSlot(pl, i) == [pl EXCEPT ![i] = [ZeroFile EXCEPT !.in_use = 1]]

AllocAt(pl, i) ==
  IF i = NULL THEN [slots |-> pl, f |-> NULL]
  ELSE [slots |-> ClaimSlot(pl, i), f |-> i]

alloc_file(pl) == AllocAt(pl, FirstFree(pl, 0))

\* what the callers pass to fopen
Paths == {NullArg, StrArg(<<"w", "a", "d">>)}

Modes ==
  {NullArg, StrArg(<<"r", "b">>), StrArg(<<"r", "+">>), StrArg(<<"w">>),
   StrArg(<<"a">>), StrArg(<<"x">>)}

\* mode[i], the terminator behind the last character
ModeAt(mode, i) == IF i < Len(mode.s) THEN mode.s[i + 1] ELSE NUL

\* O_RDONLY, O_RDWR, O_WRONLY | O_CREAT | O_TRUNC, O_WRONLY | O_CREAT | O_APPEND
Flags(mode) ==
  IF ModeAt(mode, 0) = "r" THEN (IF ModeAt(mode, 1) = "+" THEN 2 ELSE 0)
  ELSE IF ModeAt(mode, 0) = "w" THEN 577
  ELSE IF ModeAt(mode, 0) = "a" THEN 1089
  ELSE 0

\* the descriptors the kernel has for files: one more than the pool can hold
Descriptors == 3..(MAX_FILES + 3)

\* akuma_open: a negative value, or the lowest descriptor that is not open
OpenResults ==
  {-1} \cup {n \in Descriptors :
               n \notin fds /\ \A m \in Descriptors : m < n => m \in fds}

FopenFailed(flags, fd, open) ==
  [slots |-> file_pool, fds |-> open, ret |-> NULL, flags |-> flags, fd |-> fd]

\* the same with the descriptor left open
FopenFullLeak(open, fd) == open

\* akuma_close(fd) where the pool is full
FopenFull(open, fd) == open \ {fd}

\* DoomFile *f = alloc_file(); if (!f) { akuma_close(fd); return NULL; }
\* f->fd = fd; f->position = 0; return (FILE *)f;
FopenStore(flags, fd, r) ==
  IF r.f = NULL THEN FopenFailed(flags, fd, FopenFull(fds \cup {fd}, fd))
  ELSE [slots |-> [r.slots EXCEPT ![r.f].fd = fd, ![r.f].position = 0],
        fds |-> fds \cup {fd}, ret |-> r.f, flags |-> flags, fd |-> fd]

\* fd is what akuma_open returns if it is called
fopen(pathname, mode, fd) ==
  IF pathname.t = "null" \/ mode.t = "null" THEN FopenFailed(-1, -1, fds)
  ELSE IF fd < 0 THEN FopenFailed(Flags(mode), fd, fds)
  ELSE FopenStore(Flags(mode), fd, alloc_file(file_pool))

FopenReturn(r) ==
  /\ file_pool' = r.slots /\ fds' = r.fds
  /\ handles' = IF r.ret = NULL THEN handles
                ELSE [handles EXCEPT ![r.ret] = @ + 1]
  /\ fres' = [fn |-> "fopen", ret |-> r.ret, flags |-> r.flags, fd |-> r.fd]

\* the most fclose calls of the callers in one run
MaxCloses == 2

Fopen ==
  /\ pool = "files"
  /\ \E pathname \in Paths, mode \in Modes, fd \in OpenResults :
       FopenReturn(fopen(pathname, mode, fd))
  /\ UNCHANGED <<engine, sent, closes, wad, rd>>

\* if (!stream) return -1; akuma_close(f->fd); f->in_use = 0; return 0;
fclose(stream) ==
  IF stream = NULL THEN [slots |-> file_pool, fds |-> fds, ret |-> -1]
  ELSE [slots |-> [file_pool EXCEPT ![stream].in_use = 0],
        fds |-> fds \ {file_pool[stream].fd}, ret |-> 0]

FcloseReturn(stream, r) ==
  /\ file_pool' = r.slots /\ fds' = r.fds
  /\ handles' = IF stream = NULL THEN handles
                ELSE [handles EXCEPT ![stream] = @ - 1]
  /\ closes' = IF stream = NULL THEN closes ELSE closes + 1
  /\ fres' = [fn |-> "fclose", ret |-> r.ret, flags |-> -1, fd |-> -1]

\* a caller closes a handle it got from fopen and has not closed yet, or
\* passes a null handle
Fclose ==
  /\ pool = "files" /\ closes < MaxCloses
  /\ \E stream \in {i \in Slots : handles[i] > 0} \cup {NULL} :
       FcloseReturn(stream, fclose(stream))
  /\ UNCHANGED <<engine, sent, wad, rd>>

(***************************************************************************)
(* doom: W_StdC_Read on a WAD that W_StdC_OpenFile has opened.  The byte   *)
(* at index i of the file, and of the region it was loaded into, is        *)
(* Byte(i).                                                                *)
(***************************************************************************)
MaxLength == 4

Byte(i) == <<"byte", i>>

\* a byte of the mapped region of w, or of what lies behind it
Region(w, i) == IF i < w.length THEN Byte(i) ELSE <<Outside, i>>

\* the same without the clamp
ToCopyAll(buffer_len, available) == buffer_len

\* buffer_len < available ? buffer_len : available
ToCopy(buffer_len, available) ==
  IF buffer_len < available THEN buffer_len ELSE available

\* memcpy(buffer, (unsigned char *)wad->mapped + offset, to_copy);
\* return to_copy;
Memcpy(w, offset, to_copy) ==
  [ret |-> to_copy,
   buffer |-> [k \in 1..to_copy |-> Region(w, offset + k - 1)],
   reads |-> {offset + k - 1 : k \in 1..to_copy}, slots |-> file_pool]

\* if (offset >= wad->length) return 0; available = wad->length - offset;
ReadMapped(w, offset, buffer_len) ==
  IF offset >= w.length
  THEN [ret |-> 0, buffer |-> <<>>, reads |-> {}, slots |-> file_pool]
  ELSE Memcpy(w, offset, ToCopy(buffer_len, w.length - offset))

\* if (chunk > 32768) chunk = 32768;
ReadChunk == 32768

\* akuma_read on a file of flen bytes at position pos
KernelRead(pos, chunk, flen) == IF pos < flen THEN Min(chunk, flen - pos) ELSE 0

FreadGot(done, total, pos, flen) ==
  KernelRead(pos + done, Min(total - done, ReadChunk), flen)

RECURSIVE FreadLoop(_, _, _, _)
\* while (done < total) { got = akuma_read(...); if (got <= 0) { if (done
\* == 0) f->eof_flag = 1; break; } done += got; f->position += got; }
FreadLoop(done, total, pos, flen) ==
  IF ~(done < total) THEN [done |-> done, eof |-> 0]
  ELSE IF FreadGot(done, total, pos, flen) <= 0
  THEN [done |-> done, eof |-> IF done = 0 THEN 1 ELSE 0]
  ELSE FreadLoop(done + FreadGot(done, total, pos, flen), total, pos, flen)

\* if (!stream || !ptr || size == 0 || nmemb == 0) return 0; ... return
\* done / size; with size 1
fread(nmemb, pos, flen) ==
  IF nmemb = 0 THEN [done |-> 0, eof |-> 0] ELSE FreadLoop(0, nmemb, pos, flen)

\* fseek(stdc_wad->fstream, offset, SEEK_SET): position = offset, eof_flag
\* = 0; then result = fread(buffer, 1, buffer_len, stdc_wad->fstream);
ReadStream(w, offset, r) ==
  [ret |-> r.done, buffer |-> [k \in 1..r.done |-> Byte(offset + k - 1)],
   reads |-> {},
   slots |-> [file_pool EXCEPT ![w.fstream].position = offset + r.done,
                               ![w.fstream].eof_flag = r.eof]]

W_StdC_Read(w, offset, buffer_len) ==
  IF w.mapped THEN ReadMapped(w, offset, buffer_len)
  ELSE ReadStream(w, offset, fread(buffer_len, offset, w.length))

NoWad == [length |-> 0, mapped |-> FALSE, fstream |-> NULL]

NoRead == [fn |-> "none", offset |-> 0, buffer_len |-> 0, ret |-> 0,
           buffer |-> <<>>, reads |-> {}]

\* the WADs W_StdC_OpenFile can hand out: the length of the file, loaded
\* into memory or, where malloc gave nothing, read through the stream
Wads ==
  {[length |-> n, mapped |-> m, fstream |-> 0] :
     n \in 0..MaxLength, m \in BOOLEAN}

ReadReturn(offset, buffer_len, r) ==
  /\ rd' = [fn |-> "read", offset |-> offset, buffer_len |-> buffer_len,
            ret |-> r.ret, buffer |-> r.buffer, reads |-> r.reads]
  /\ file_pool' = r.slots

WadRead ==
  /\ pool = "wad"
  /\ \E offset \in 0..(MaxLength + 1), buffer_len \in 0..(MaxLength + 1) :
       ReadReturn(offset, buffer_len, W_StdC_Read(wad, offset, buffer_len))
  /\ UNCHANGED <<engine, sent, fds, handles, fres, closes, wad>>

(***************************************************************************)
(* Initial states                                                          *)
(***************************************************************************)
NoCall == [fn |-> "none", ret |-> NULL, flags |-> -1, fd |-> -1]

\* the callers of the engine before they did anything: the pool zeroed,
\* the descriptors of the standard streams open
InitIO ==
  /\ sent = NoSent /\ file_pool = [i \in Slots |-> ZeroFile]
  /\ fds = {0, 1, 2} /\ handles = [i \in Slots |-> 0] /\ fres = NoCall
  /\ closes = 0 /\ wad = NoWad /\ rd = NoRead

Init ==
  /\ variant = "none" /\ format = <<>> /\ tail = <<>> /\ ap = <<>>
  /\ size = 0 /\ str = [i \in 0..0 |-> Untouched] /\ fp = 1 /\ ai = 0
  /\ out = 0 /\ pc = "idle" /\ ret = 0 /\ overread = FALSE
  /\ scratchTop = 0 /\ wild = FALSE /\ d = NoDir
  /\ pool = "wide" /\ memo = NoMemo /\ peer = Idle /\ InitIO

InitRepeat ==
  /\ variant = "none" /\ format = <<>> /\ tail = <<>> /\ ap = <<>>
  /\ size = 0 /\ str = [i \in 0..0 |-> Untouched] /\ fp = 1 /\ ai = 0
  /\ out = 0 /\ pc = "idle" /\ ret = 0 /\ overread = FALSE
  /\ scratchTop = 0 /\ wild = FALSE /\ d = NoDir
  /\ pool = "repeat" /\ memo = NoMemo /\ peer = Idle /\ InitIO

InitDetail ==
  /\ Install0(Idle) /\ pool = "detail" /\ memo = NoMemo /\ peer = Idle
  /\ InitIO

InitPair ==
  /\ Install0(Idle) /\ pool = "pair" /\ memo = NoMemo /\ peer = Idle
  /\ InitIO

InitEdge ==
  /\ Install0(Idle) /\ pool = "edge" /\ memo = NoMemo /\ peer = Idle
  /\ InitIO

InitStream ==
  /\ Install0(Idle) /\ pool = "stream" /\ memo = NoMemo /\ peer = Idle
  /\ InitIO

InitSprintf ==
  /\ Install0(Idle) /\ pool = "sprintf" /\ memo = NoMemo /\ peer = Idle
  /\ InitIO

InitFiles ==
  /\ Install0(Idle) /\ pool = "files" /\ memo = NoMemo /\ peer = Idle
  /\ InitIO

\* W_StdC_OpenFile has run: its stream holds slot 0 and descriptor 3
InitWad ==
  /\ Install0(Idle) /\ pool = "wad" /\ memo = NoMemo /\ peer = Idle
  /\ sent = NoSent /\ fres = NoCall /\ closes = 0 /\ rd = NoRead
  /\ file_pool = [ClaimSlot([i \in Slots |-> ZeroFile], 0) EXCEPT ![0].fd = 3]
  /\ fds = {0, 1, 2, 3} /\ handles = [i \in Slots |-> IF i = 0 THEN 1 ELSE 0]
  /\ wad \in Wads

\* a caller enters vsnprintf; in the repeat pool a caller may call again
\* after a return, and may keep the result of the call that just returned
Call ==
  /\ pc = "idle" \/ (pool = "repeat" /\ pc = "done")
  /\ \E in \in Pool(pool) : Install(Entry(Frame(in)))
  /\ memo' \in IF pool = "repeat" /\ pc = "done" THEN {memo, Result} ELSE {memo}
  /\ UNCHANGED <<pool, peer, io>>

DoomVsnprintf ==
  /\ pc = "run" /\ variant = "doom"
  /\ Install(Step(Cur, Benign))
  /\ UNCHANGED <<pool, memo, peer, io>>

QjsVsnprintf ==
  /\ pc = "run" /\ variant = "quickjs"
  /\ \E e \in Env : Install(Step(Cur, e))
  /\ UNCHANGED <<pool, memo, peer, io>>

SqliteVsnprintf ==
  /\ pc = "run" /\ variant = "sqlite"
  /\ \E e \in Env : Install(Step(Cur, e))
  /\ UNCHANGED <<pool, memo, peer, io>>

TccVsnprintf ==
  /\ pc = "run" /\ variant = "tcc"
  /\ Install(Step(Cur, Benign))
  /\ UNCHANGED <<pool, memo, peer, io>>

\* the frame of a call of the second context: its own locals
PeerFrame(in) == [Frame(in) EXCEPT !.out = peer.out, !.ret = peer.ret]

\* the same with the position kept in one cell for both contexts
PeerStepShared(s, e) == Step([s EXCEPT !.out = out], e)

\* a step of the second context: it reads and writes its own frame only
PeerStep(s, e) == Step(s, e)

\* a second execution context enters vsnprintf with its own buffer,
\* template and arguments
PeerCall ==
  /\ pool = "pair" /\ peer.pc = "idle"
  /\ \E in \in Pool(pool) : peer' = Entry(PeerFrame(in))
  /\ UNCHANGED <<variant, format, tail, ap, size, str, fp, ai, out, pc, ret,
                 overread, scratchTop, wild, d, pool, memo, io>>

\* one loop iteration of the call of the second context
PeerVsnprintf ==
  /\ peer.pc = "run"
  /\ \E e \in Env : peer' = PeerStep(peer, e)
  /\ UNCHANGED <<variant, format, tail, ap, size, str, fp, ai, out, pc, ret,
                 overread, scratchTop, wild, d, pool, memo, io>>

Next == Call \/ DoomVsnprintf \/ QjsVsnprintf \/ SqliteVsnprintf \/ TccVsnprintf

NextPair == Next \/ PeerCall \/ PeerVsnprintf

Spec == Init /\ [][Next]_vars

SpecRepeat == InitRepeat /\ [][Next]_vars

SpecDetail == InitDetail /\ [][Next]_vars

SpecPair == InitPair /\ [][NextPair]_vars

SpecEdge == InitEdge /\ [][Next]_vars

NextStream ==
  \/ Call \/ DoomVsnprintf \/ QjsVsnprintf \/ TccVsnprintf
  \/ DoomVfprintf \/ QjsPrintf \/ QjsVprintf \/ QjsFprintf \/ TccVfprintf

SpecStream == InitStream /\ [][NextStream]_vars

SpecSprintf == InitSprintf /\ [][Next]_vars

NextFiles == Fopen \/ Fclose

SpecFiles == InitFiles /\ [][NextFiles]_vars

NextWad == WadRead

SpecWad == InitWad /\ [][NextWad]_vars

TypeOK ==
  /\ pc \in {"idle", "run", "done", "badarg", "crash", "float"}
  /\ out >= 0 /\ ai >= 0 /\ fp >= 1


(***************************************************************************)
(* The rendering of the current template and arguments by the current      *)
(* variant when the capacity is BigSize, larger than any rendering         *)
(***************************************************************************)
Full ==
  Run(Entry(Frame([variant |-> variant, format |-> format, ap |-> ap,
                   size |-> BigSize])))

\* the reference rendering returned without leaving the template
FullOK == Full.pc = "done" /\ ~Full.overread /\ ~Full.wild

Returned == pc = "done"

\* the call has room for the whole directive handled last
Roomy == d.start + Max(d.width, Len(d.content)) + 2 <= size - 1

Written == {i \in DOMAIN str : str[i] # Untouched}

(***************************************************************************)
(* C1: for every capacity N > 0 the call stores only into destination      *)
(* cells 0..N-1, stores at most N-1 content bytes, and on return some cell *)
(* at an index <= N-1 holds the terminator.                                *)
(***************************************************************************)
C1_WritesStayInside ==
  (size > 0 /\ pc \in {"run", "done", "crash"}) =>
     /\ ~wild
     /\ str[size] = Untouched
     /\ pc = "run" => Cardinality(Written) <= size - 1
     /\ Returned => /\ \E i \in 0..(size - 1) : str[i] = NUL
                    /\ Cardinality(Written) <= size

(***************************************************************************)
(* C2: the value returned is the logical length, the number of characters  *)
(* the template and arguments produce when the capacity is unbounded, and  *)
(* not the number of bytes stored (capacity 3, "%s", "hello": returns 5).  *)
(***************************************************************************)
C2_ReturnsLogicalLength ==
  (Returned /\ size > 0 /\ FullOK /\ ~overread) => ret = Full.ret

(***************************************************************************)
(* C3: for every capacity N > 0, a character of the full rendering is      *)
(* missing from the buffer if and only if the returned value is >= N.      *)
(***************************************************************************)
Missing ==
  \E k \in 0..(Full.ret - 1) : k >= size - 1 \/ str[k] # Full.str[k]

C3_TruncationSignalled ==
  (Returned /\ size > 0 /\ FullOK /\ ~overread) =>
     (Missing <=> ret >= size)

(***************************************************************************)
(* C4: with capacity 0 the call stores no byte at all, not even the        *)
(* terminator, and still returns the full logical length.                  *)
(***************************************************************************)
C4_ZeroCapacityCounts ==
  (Returned /\ size = 0 /\ FullOK) =>
     /\ Written = {}
     /\ ret = Full.ret

(***************************************************************************)
(* C5: a directive whose conversion character the variant does not         *)
(* recognize renders exactly '%' followed by that character and consumes   *)
(* no argument.                                                            *)
(***************************************************************************)
C5_UnrecognizedPassesThrough ==
  (pc \in {"run", "done"} /\ d.kind = "default" /\ d.conv # NUL /\ Roomy) =>
     /\ out = d.start + 2
     /\ str[d.start] = "%"
     /\ str[d.start + 1] = d.conv
     /\ ai = d.ai0

(***************************************************************************)
(* C6: a '%' that ends the template (alone, or after flags, width,         *)
(* precision or length) is rendered as the single character '%', adds no   *)
(* NUL or other byte, the parser stops at the terminator of the template,  *)
(* and no position after the terminator is ever read.                      *)
(***************************************************************************)
C6_TrailingPercentLiteral ==
  /\ ~overread
  /\ (pc \in {"run", "done"} /\ d.kind = "default" /\ d.conv = NUL /\ Roomy) =>
        /\ out = d.start + 1
        /\ str[d.start] = "%"
        /\ fp = Len(format) + 1


(***************************************************************************)
(* C7: a string conversion whose argument is the null reference renders    *)
(* the placeholder "(null)" under the precision and truncation rules of    *)
(* any other string, and the call goes on normally, in every variant: the  *)
(* step leaves the call exactly where the same step leaves it when the     *)
(* argument is the string "(null)".                                        *)
(***************************************************************************)
WithPlaceholder(s) ==
  [s EXCEPT !.ap = [k \in DOMAIN s.ap |->
                      IF s.ap[k].t = "null" THEN StrArg(NullText) ELSE s.ap[k]]]

SameProgress(n, m) ==
  /\ n.pc = m.pc /\ n.str = m.str /\ n.out = m.out /\ n.fp = m.fp
  /\ n.ai = m.ai /\ n.d = m.d

C7_NullPlaceholder ==
  pc = "run" =>
    LET n == Step(Cur, Benign)
        m == Step(WithPlaceholder(Cur), Benign)
    IN (m.pc = "run" /\ m.d.kind = "s" /\ ArgAt(Cur, m.ai - 1).t = "null") =>
         /\ SameProgress(n, m)
         /\ n.d.content = IF n.d.precision >= 0
                          THEN Take(NullText, n.d.precision) ELSE NullText

C7_Witness ==
  /\ pc \in {"run", "done"} /\ d.kind = "s" /\ ai > 0 /\ ap[ai].t = "null"
  /\ d.precision < 0 /\ out = d.start + Len(NullText)
  /\ \A k \in 1..Len(NullText) : str[d.start + k - 1] = NullText[k]

(***************************************************************************)
(* C8: render (doom vsnprintf) is deterministic: a call with the template, *)
(* arguments and capacity of an earlier call leaves the same bytes in the  *)
(* destination and returns the same length, whatever calls were made in    *)
(* between.                                                                *)
(***************************************************************************)
SameInput ==
  /\ memo.variant = variant /\ memo.format = format /\ memo.ap = ap
  /\ memo.size = size

C9_SignBeforeZeroFill ==
  (/\ pc \in {"run", "done"} /\ d.kind = "d" /\ d.neg /\ d.zero_pad
   /\ ~d.left /\ d.precision < 0 /\ d.width > Len(d.content) /\ Roomy
   /\ ~wild) =>
     LET fill == d.width - Len(d.content)
     IN /\ str[d.start] = "-"
        /\ \A k \in 1..fill : str[d.start + k] = "0"
        /\ \A k \in 2..Len(d.content) :
              str[d.start + fill + k - 1] = d.content[k]

(***************************************************************************)
(* C10: a conversion with content of length L and field width W produces   *)
(* exactly max(0, W - L) fill characters; with the left-justify flag the   *)
(* content comes first and spaces follow, otherwise the fill comes first   *)
(* and the content follows.                                                *)
(***************************************************************************)
C10_FieldWidthPadding ==
  (/\ pc \in {"run", "done"} /\ d.kind \in {"d", "u", "x", "p", "s", "c"}
   /\ d.width >= 0 /\ Roomy /\ ~wild) =>
     LET L == Len(d.content)
         pad == Max(0, d.width - L)
     IN /\ out = d.start + L + pad
        /\ d.left =>
             /\ \A k \in 1..L : str[d.start + k - 1] = d.content[k]
             /\ \A k \in 1..pad : str[d.start + L + k - 1] = " "
        /\ (~d.left /\ ~(d.neg /\ d.zero_pad)) =>
             /\ \A k \in 1..L : str[d.start + pad + k - 1] = d.content[k]
             /\ \A k \in 1..pad : str[d.start + k - 1] \in {" ", "0"}

\* the cells of the field of the directive handled last
FieldCells == d.start..(d.start + d.width - 1)

\* the call has room for the field and the precision of that directive
RoomyFor(n) == Roomy /\ d.start + n + 2 <= size - 1

Handling == pc \in {"run", "done"} /\ ~wild

(***************************************************************************)
(* C11: the fill is '0' only when zero-pad is set, left-justify is not     *)
(* set, the conversion is numeric and no precision was given; a numeric    *)
(* field filled in any other case holds width - length spaces.             *)
(***************************************************************************)
C11_ZeroFillOnlyWhenPlain ==
  (/\ Handling /\ d.kind \in {"d", "u", "x"} /\ d.width > Len(d.content)
   /\ Roomy /\ ~(d.zero_pad /\ ~d.left /\ d.precision < 0)) =>
     Cardinality({k \in FieldCells : str[k] = " "}) = d.width - Len(d.content)

(***************************************************************************)
(* C12: an integer conversion with precision P renders at least P digits,  *)
(* zeros added on the left of the digit string, the sign not counted, and  *)
(* the field width is applied to the result ("%8.5d" with 42 renders three *)
(* spaces and "00042").                                                    *)
(***************************************************************************)
C12_PrecisionIsMinimumDigits ==
  (/\ Handling /\ d.kind \in {"d", "u", "x"} /\ d.precision >= 0 /\ ~d.left
   /\ RoomyFor(d.precision + 1)) =>
     /\ \A k \in 1..d.precision : str[out - k] \notin {" ", "-", Untouched}
     /\ out >= d.start + d.precision + (IF d.neg THEN 1 ELSE 0)
     /\ out >= d.start + d.width

(***************************************************************************)
(* C13: a string conversion with precision P copies at most P characters   *)
(* of the source ("%.2s" with "hello" renders "he"), copies a shorter      *)
(* source whole, and a string field that is filled is filled with spaces   *)
(* even under the zero-pad flag.                                           *)
(***************************************************************************)
PrecisionString ==
  /\ d.kind # "none" /\ Deref(Cur, d.fp0) = "%" /\ Deref(Cur, d.fp0 + 1) = "."
  /\ isdigit(Deref(Cur, d.fp0 + 2)) /\ Deref(Cur, d.fp0 + 3) = "s"
  /\ ArgAt(Cur, d.ai0).t = "str"

C13_StringPrecisionIsMaximum ==
  /\ (Handling /\ PrecisionString /\ RoomyFor(Len(ArgAt(Cur, d.ai0).s))) =>
       LET text == Take(ArgAt(Cur, d.ai0).s, DigitVal(Deref(Cur, d.fp0 + 2)))
       IN /\ d.kind = "s"
          /\ out = d.start + Len(text)
          /\ \A k \in 1..Len(text) : str[d.start + k - 1] = text[k]
  /\ (Handling /\ d.kind = "s" /\ d.zero_pad /\ Roomy
      /\ out = d.start + d.width) =>
       \A k \in FieldCells : str[k] # "0"

(***************************************************************************)
(* C14: a directive takes its arguments left to right, once each: the      *)
(* width of '*' first, then the precision of '.*', then one value; "%%"    *)
(* takes none and renders one '%'.                                         *)
(***************************************************************************)
StarWidth == Deref(Cur, d.fp0 + 1) = "*"

StarPrecision ==
  StarWidth /\ Deref(Cur, d.fp0 + 2) = "." /\ Deref(Cur, d.fp0 + 3) = "*"

C14_ArgumentsLeftToRight ==
  /\ (Handling /\ d.kind # "none" /\ Deref(Cur, d.fp0) = "%" /\ StarWidth
      /\ Deref(Cur, d.fp0 + (IF StarPrecision THEN 4 ELSE 2)) = "d") =>
       /\ d.kind = "d"
       /\ d.width = ArgAt(Cur, d.ai0).n
       /\ StarPrecision => d.precision = ArgAt(Cur, d.ai0 + 1).n
       /\ ai = d.ai0 + (IF StarPrecision THEN 3 ELSE 2)
       /\ d.content[Len(d.content)]
            = LowerHex[(ArgAt(Cur, ai - 1).n % 10) + 1]
  /\ (Handling /\ d.kind # "none" /\ Deref(Cur, d.fp0) = "%"
      /\ Deref(Cur, d.fp0 + 1) = "%" /\ Roomy) =>
       /\ ai = d.ai0 /\ out = d.start + 1 /\ str[d.start] = "%"

(***************************************************************************)
(* C15: two calls running at once in two execution contexts, each with its *)
(* own buffer, template and arguments, leave under every interleaving of   *)
(* their steps the bytes and the return value that each call produces when *)
(* it runs alone: at every point of either call, finishing it alone gives  *)
(* the result of the call made alone.                                      *)
(***************************************************************************)
Alone(s) ==
  Run(Entry(Frame([variant |-> s.variant, format |-> s.format, ap |-> s.ap,
                   size |-> s.size])))

SameResult(n, m) == n.pc = m.pc /\ n.str = m.str /\ n.ret = m.ret

Sound(s) == s.pc \in {"run", "done"} /\ ~s.overread /\ ~s.wild

C15_ConcurrentCallsIndependent ==
  /\ Sound(Cur) => SameResult(Run(Cur), Alone(Cur))
  /\ Sound(peer) => SameResult(Run(peer), Alone(peer))

C15_Witness ==
  /\ pc = "run" /\ peer.pc = "run" /\ fp > 1 /\ peer.fp > 1
  /\ variant = "doom" /\ peer.variant = "quickjs"
  /\ format # peer.format /\ size # peer.size /\ out > 0 /\ peer.out > 0

(***************************************************************************)
(* C16: in every variant 'x' renders the unsigned value with the digits    *)
(* a-f and 'X' with A-F, and a pointer renders "0x" immediately followed   *)
(* by the lowercase hex digits of the address.                             *)
(***************************************************************************)
LowerLetters == {"a", "b", "c", "d", "e", "f"}

UpperLetters == {"A", "B", "C", "D", "E", "F"}

Rendered == d.start..(out - 1)

C16_HexCaseAndPointerPrefix ==
  /\ (Handling /\ d.kind = "x" /\ Roomy) =>
       /\ d.conv = "x" => \A k \in Rendered : str[k] \notin UpperLetters
       /\ d.conv = "X" => \A k \in Rendered : str[k] \notin LowerLetters
  /\ (Handling /\ d.kind = "p" /\ d.width = 0 /\ Roomy) =>
       LET digits == Rev(DigitsRev(ArgAt(Cur, d.ai0).n, 16, LowerHex))
       IN /\ out = d.start + 2 + Len(digits)
          /\ str[d.start] = "0" /\ str[d.start + 1] = "x"
          /\ \A k \in 1..Len(digits) : str[d.start + 1 + k] = digits[k]

(***************************************************************************)
(* C17: in doom's vsnprintf every append advances the position by the      *)
(* whole length requested, fitting or not, the "0x" of a pointer included, *)
(* so the value returned for a template and its arguments is the same for  *)
(* every capacity >= 1.                                                    *)
(***************************************************************************)
C17_DoomCountsEveryAppend ==
  /\ (pc \in {"run", "done"} /\ variant = "doom" /\ d.kind # "none") =>
        out = d.start + Max(Len(d.content),
                            IF d.kind \in {"d", "u", "x"} THEN d.width ELSE 0)
  /\ (Returned /\ variant = "doom" /\ size >= 1 /\ FullOK) => ret = Full.ret

(***************************************************************************)
(* C18: when a call with capacity N > 0 returns, the terminator is at      *)
(* index min(position, N - 1), position being the logical position         *)
(* reached, and every byte below that index is the byte of the untruncated *)
(* rendering at the same index.                                            *)
(***************************************************************************)
TerminatorIndex == Min(Full.ret, size - 1)

C18_TerminatorAtMinPosition ==
  (Returned /\ size > 0 /\ FullOK /\ ~overread) =>
     /\ str[TerminatorIndex] = NUL
     /\ \A k \in 0..(TerminatorIndex - 1) : str[k] = Full.str[k]

C18_Witness ==
  /\ Returned /\ size = MaxSize /\ ~overread /\ FullOK /\ Full.ret > size
  /\ str[size - 1] = NUL /\ str[0] = Full.str[0] /\ str[1] = Full.str[1]
  /\ d.kind = "s"

(***************************************************************************)
(* C19: flags are accepted in any order and a repeated flag changes        *)
(* nothing: a directive renders the same bytes and takes the same          *)
(* arguments when two neighbouring flags are exchanged and when its first  *)
(* flag is written twice.                                                  *)
(***************************************************************************)
FlagChars == {"0", "-", "+", " ", "#"}

Exchanged(s, i) ==
  [s EXCEPT !.format = [k \in 1..Len(s.format) |->
                          IF k = i THEN s.format[i + 1]
                          ELSE IF k = i + 1 THEN s.format[i]
                          ELSE s.format[k]]]

Doubled(s, i) ==
  [s EXCEPT !.format = SubSeq(s.format, 1, i) \o SubSeq(s.format, i, Len(s.format))]

SameRendering(n, m, shift) ==
  /\ n.pc = m.pc /\ n.str = m.str /\ n.out = m.out /\ n.ai = m.ai
  /\ m.fp = n.fp + shift

C19_FlagOrderIrrelevant ==
  (/\ pc = "run" /\ Deref(Cur, fp) = "%" /\ fp + 2 <= Len(format)
   /\ format[fp + 1] \in FlagChars) =>
     /\ format[fp + 2] \in FlagChars =>
          SameRendering(Step(Cur, Benign), Step(Exchanged(Cur, fp + 1), Benign), 0)
     /\ SameRendering(Step(Cur, Benign), Step(Doubled(Cur, fp + 1), Benign), 1)

(***************************************************************************)
(* C20: every variant recognizes the length modifiers h, l, ll and z,      *)
(* longest match first, and treats the character after the modifier as     *)
(* the conversion: an integer directive with a modifier renders what the   *)
(* directive without it renders and takes the same argument.               *)
(***************************************************************************)
ModifierLength(s, i) ==
  IF Deref(s, i) \in {"l", "h"} /\ Deref(s, i + 1) = Deref(s, i) THEN 2 ELSE 1

Without(s, i, n) ==
  [s EXCEPT !.format = SubSeq(s.format, 1, i - 1)
                       \o SubSeq(s.format, i + n, Len(s.format))]

C20_LengthModifiersRecognized ==
  (/\ pc = "run" /\ Deref(Cur, fp) = "%" /\ Deref(Cur, fp + 1) \in {"h", "l", "z"}
   /\ Deref(Cur, fp + 1 + ModifierLength(Cur, fp + 1)) \in {"d", "u"}) =>
     /\ Step(Cur, Benign).d.kind \in {"d", "u"}
     /\ SameRendering(Step(Without(Cur, fp + 1, ModifierLength(Cur, fp + 1)),
                           Benign),
                      Step(Cur, Benign), ModifierLength(Cur, fp + 1))

(***************************************************************************)
(* C21: a width taken from an argument that is negative gives no padding:  *)
(* the directive renders what the same directive without a width renders,  *)
(* with no fill before or after the content, and the position advances by  *)
(* the length of the content only.                                         *)
(***************************************************************************)
WidthAt(s) == SkipSet(s, s.fp + 1, FlagChars)

\* the call without the character at index i of the template and without
\* the argument the cursor is at
Unstarred(s, i) ==
  [s EXCEPT !.format = SubSeq(s.format, 1, i - 1)
                       \o SubSeq(s.format, i + 1, Len(s.format)),
            !.ap = SubSeq(s.ap, 1, s.ai) \o SubSeq(s.ap, s.ai + 2, Len(s.ap))]

Converted(s) == s.pc = "run" /\ s.d.kind \in {"d", "u", "x", "s", "c", "p"}

NegativeStarWidth ==
  /\ pc = "run" /\ Deref(Cur, fp) = "%" /\ Deref(Cur, WidthAt(Cur)) = "*"
  /\ HasArg(Cur, ai, {"int"}) /\ ArgAt(Cur, ai).n < 0
  /\ Converted(Step(Cur, Benign))

C21_NegativeStarWidthNoPadding ==
  NegativeStarWidth =>
    LET n == Step(Cur, Benign)
        m == Step(Unstarred(Cur, WidthAt(Cur)), Benign)
    IN /\ n.pc = m.pc /\ n.str = m.str /\ n.out = m.out
       /\ n.ai = m.ai + 1 /\ n.fp = m.fp + 1
       /\ n.d.content = m.d.content /\ m.d.width = 0
       /\ out + Len(n.d.content) + 2 <= size - 1 =>
            /\ n.out = out + Len(n.d.content)
            /\ \A k \in 1..Len(n.d.content) :
                 n.str[out + k - 1] = n.d.content[k]

\* doom has rendered "%*d" with the arguments -3 and 7 as "7"
C21_Witness ==
  /\ Handling /\ variant = "doom" /\ d.kind = "d" /\ d.width < 0
  /\ StarWidth /\ d.start + 3 <= size - 1
  /\ out = d.start + 1 /\ str[d.start] = "7"

(***************************************************************************)
(* C22: a precision taken from an argument that is negative counts as no   *)
(* precision: the directive renders what the same directive without ".*"   *)
(* and without that argument renders.  A string is not shortened, an       *)
(* integer gets no digit padding and the zero-pad flag keeps its effect.   *)
(***************************************************************************)
PrecisionAt(s) == SkipSet(s, s.fp + 1, FlagChars \cup DigitChars)

NegativeStarPrecision ==
  /\ pc = "run" /\ Deref(Cur, fp) = "%"
  /\ Deref(Cur, PrecisionAt(Cur)) = "." /\ Deref(Cur, PrecisionAt(Cur) + 1) = "*"
  /\ HasArg(Cur, ai, {"int"}) /\ ArgAt(Cur, ai).n < 0
  /\ Converted(Step(Cur, Benign))

C22_NegativeStarPrecisionAbsent ==
  NegativeStarPrecision =>
    LET n == Step(Cur, Benign)
        m == Step(Without(Unstarred(Cur, PrecisionAt(Cur)), PrecisionAt(Cur), 1),
                  Benign)
    IN /\ n.pc = m.pc /\ n.str = m.str /\ n.out = m.out
       /\ n.ai = m.ai + 1 /\ n.fp = m.fp + 2
       /\ n.d.content = m.d.content /\ m.d.precision = -1
       /\ n.d.zero_pad = m.d.zero_pad

\* doom has rendered "%05.*d" with the arguments -2 and 42 as "00042"
C22_Witness ==
  /\ Handling /\ variant = "doom" /\ d.kind = "d" /\ d.precision = -2
  /\ d.zero_pad /\ d.start + 7 <= size - 1 /\ out = d.start + 5
  /\ str[d.start] = "0" /\ str[d.start + 3] = "4"

(***************************************************************************)
(* C23: a precision is present only behind a '.'; a '.' with no digit      *)
(* behind it is precision 0, so "%.s" takes its string argument and        *)
(* renders none of its characters; digits without a '.' are the width and  *)
(* leave the precision absent, so "%2s" renders the whole string.          *)
(***************************************************************************)
C23_PrecisionOnlyAfterDot ==
  (/\ pc = "run" /\ Deref(Cur, fp) = "%" /\ HasArg(Cur, ai, {"str"})
   /\ out + Len(ArgAt(Cur, ai).s) + 2 <= size - 1) =>
    LET n == Step(Cur, Benign)
    IN /\ (Deref(Cur, fp + 1) = "." /\ Deref(Cur, fp + 2) = "s") =>
            /\ n.pc = "run" /\ n.d.kind = "s" /\ n.d.precision = 0
            /\ n.out = out /\ n.str = str /\ n.ai = ai + 1 /\ n.fp = fp + 3
       /\ (isdigit(Deref(Cur, fp + 1)) /\ Deref(Cur, fp + 2) = "s") =>
            /\ n.pc = "run" /\ n.d.kind = "s" /\ n.d.precision = -1
            /\ n.d.content = ArgAt(Cur, ai).s /\ n.ai = ai + 1

(***************************************************************************)
(* C24: a stream wrapper forwards no more bytes than vsnprintf stored in   *)
(* its local array: the count it passes to the output primitive is at most *)
(* the capacity of the array minus one, at most the number of cells that   *)
(* hold a rendered byte, and every byte read for it is a rendered byte.    *)
(***************************************************************************)
StoredCells == {i \in DOMAIN str : str[i] \notin {Untouched, NUL}}

C24_StreamWrappersForwardStoredBytes ==
  sent.fn # "none" =>
    /\ sent.count <= size - 1
    /\ sent.count <= Cardinality(StoredCells)
    /\ \A k \in 1..sent.count : sent.bytes[k] \notin {Untouched, NUL, Outside}

\* doom vfprintf has forwarded 511 bytes of a rendering longer than its array
C24_Witness ==
  /\ sent.fn = "vfprintf" /\ variant = "doom" /\ size = DoomStreamBuf
  /\ sent.ret > DoomStreamBuf - 1 /\ sent.count = DoomStreamBuf - 1
  /\ sent.bytes[DoomStreamBuf - 1] = "x"

(***************************************************************************)
(* C25: while an integer conversion is rendered, every store into the      *)
(* scratch array of the variant has an index below the size of the array,  *)
(* whatever the value and the field width.                                 *)
(***************************************************************************)
ScratchSize ==
  CASE variant = "doom" -> TmpSize
    [] variant = "quickjs" -> QjsBufSize
    [] variant = "sqlite" -> SqliteBufSize
    [] OTHER -> TccBufSize

\* scratchTop is the highest index stored at, plus one
C25_ScratchIndexInBounds == scratchTop <= ScratchSize

(***************************************************************************)
(* C26: a signed conversion renders every value, the most negative one of  *)
(* its type included, as the decimal digits of its magnitude behind a '-'  *)
(* for a negative value: every digit character is one of '0' .. '9' and    *)
(* the digits read as a number give the magnitude.                         *)
(***************************************************************************)
RECURSIVE NumberOf(_)
NumberOf(q) ==
  IF q = <<>> THEN 0
  ELSE 10 * NumberOf(SubSeq(q, 1, Len(q) - 1)) + DigitVal(q[Len(q)])

Magnitude(val) == IF val < 0 THEN -val ELSE val

C26_MostNegativeRendersMagnitude ==
  (Handling /\ d.kind = "d" /\ ~d.left /\ d.precision < 0 /\ ai > 0 /\ Roomy) =>
    LET val == ArgAt(Cur, ai - 1).n
        digits == [k \in 1..(Len(d.content) - (IF d.neg THEN 1 ELSE 0)) |->
                     str[out - (Len(d.content) - (IF d.neg THEN 1 ELSE 0)) + k - 1]]
    IN /\ d.neg = (val < 0)
       /\ d.neg => \E i \in d.start..(out - 1) : str[i] = "-"
       /\ \A k \in 1..Len(digits) : digits[k] \in DigitChars
       /\ NumberOf(digits) = Magnitude(val)

(***************************************************************************)
(* C27: sprintf and vsprintf render the complete text: called with the     *)
(* capacity the wrapper passes, vsnprintf returns what it returns with a   *)
(* capacity larger than the rendering, and leaves the same text and        *)
(* terminator.                                                             *)
(***************************************************************************)
C27_UnboundedWrappersRenderAll ==
  (Returned /\ size = SprintfSize(variant) /\ FullOK /\ ~overread) =>
     /\ ret = Full.ret
     /\ \A i \in 0..Full.ret : str[i] = Full.str[i]

(***************************************************************************)
(* C28: in the doom FILE pool no two handles that fopen returned and that  *)
(* were not closed since refer to the same slot, the slot of every such    *)
(* handle has in_use = 1, and at most MAX_FILES handles are live at once.  *)
(***************************************************************************)
RECURSIVE LiveUpTo(_)
\* the number of live handles to the slots below i
LiveUpTo(i) == IF i = 0 THEN 0 ELSE LiveUpTo(i - 1) + handles[i - 1]

C28_LiveHandlesOwnTheirSlots ==
  /\ \A i \in Slots : handles[i] <= 1
  /\ \A i \in Slots : handles[i] > 0 => file_pool[i].in_use = 1
  /\ LiveUpTo(MAX_FILES) <= MAX_FILES

\* every slot is held by a live handle after two handles were closed and
\* their slots handed out again
C28_Witness ==
  /\ closes = MaxCloses /\ fres.fn = "fopen" /\ fres.ret # NULL
  /\ \A i \in Slots : handles[i] = 1 /\ file_pool[i].in_use = 1

(***************************************************************************)
(* C29: a call of doom fopen that fails, because akuma_open gave a         *)
(* negative descriptor or because every slot of the pool is in use,        *)
(* returns NULL, leaves every slot of the pool as it was and leaves open   *)
(* no descriptor that it opened: the one it got before it found the pool   *)
(* full is closed.                                                         *)
(***************************************************************************)
C29_FailedFopenLeavesNoTrace ==
  [][(fres'.fn = "fopen" /\ fres'.ret = NULL) =>
       /\ file_pool' = file_pool /\ fds' = fds /\ handles' = handles
       /\ fres'.fd \notin fds']_vars

\* fopen has failed on a full pool after akuma_open gave it a descriptor
C29_Witness ==
  /\ fres.fn = "fopen" /\ fres.ret = NULL /\ fres.fd >= 0
  /\ fres.fd \notin fds /\ \A i \in Slots : file_pool[i].in_use = 1

(***************************************************************************)
(* C30: on a WAD loaded into memory W_StdC_Read returns the smaller of     *)
(* buffer_len and length - offset where offset is below length and 0       *)
(* otherwise, copies exactly that many bytes, those of the region from     *)
(* offset on, and reads no byte at or behind index length of the region.   *)
(***************************************************************************)
C30_ReadStaysInsideTheWad ==
  (rd.fn = "read" /\ wad.mapped) =>
     /\ rd.ret = IF rd.offset < wad.length
                 THEN Min(rd.buffer_len, wad.length - rd.offset) ELSE 0
     /\ Len(rd.buffer) = rd.ret
     /\ \A k \in 1..Len(rd.buffer) : rd.buffer[k] = Byte(rd.offset + k - 1)
     /\ rd.reads = {rd.offset + k - 1 : k \in 1..rd.ret}
     /\ \A i \in rd.reads : i < wad.length

\* a read that asked for more than the WAD has behind the offset
C30_Witness ==
  /\ rd.fn = "read" /\ wad.mapped /\ rd.offset > 0 /\ rd.offset < wad.length
  /\ rd.buffer_len > wad.length - rd.offset
  /\ rd.ret = wad.length - rd.offset /\ rd.ret > 1

====
